---- MODULE Spec2Model ----
(***************************************************************************)
(* The no-arbitrage router over aggregated Uniswap-V2 pools.               *)
(*                                                                         *)
(* Router (router/mod.rs) keeps, per token, a total reserve and a price q, *)
(* and per token pair a geometric liquidity K.  solve() adds the input     *)
(* amount to the input token's reserve, runs the Gauss-Seidel fixed point  *)
(* over every token but the output token, renormalizes the prices and      *)
(* overwrites the output token's reserve.  TokenGraph (token_graph.rs) is  *)
(* the same algorithm over per-node adjacency maps.                        *)
(*                                                                         *)
(* Every f64 of the source is a binary floating-point number here too:     *)
(* <<m, e>> stands for m * 2^e with a mantissa of MantBits bits, and every *)
(* operation rounds its exact result to the nearest such number, as IEEE   *)
(* arithmetic does.  The mantissa is narrower than f64's 53 bits, and the  *)
(* solver's TOLERANCE and MAX_ITERS are scaled with it.                    *)
(***************************************************************************)
EXTENDS Integers, Sequences, FiniteSets

VARIABLES
    pools,              \* the Vec<UniV2Pool> handed to Router::new
    n_tokens,           \* Router.n_tokens
    token_index,        \* Router.token_index
    reserve_by_token,   \* Router.reserve_by_token
    q_by_token,         \* Router.q_by_token
    liquidity_by_pair,  \* Router.liquidity_by_pair (PairwiseLiquidities.inner)
    calls,              \* number of solve calls made so far
    last,               \* the last solve call: arguments, state before it, result
    shadow,             \* a second Router, normalizing against another token
    graph               \* a TokenGraph built from the same pools

vars == <<pools, n_tokens, token_index, reserve_by_token, q_by_token,
          liquidity_by_pair, calls, last, shadow, graph>>

-----------------------------------------------------------------------------
(* f64 *)

\* Width of the mantissa (f64: 53).
MantBits == 14

RECURSIVE BitLen(_)
\* The number of bits of n >= 0
BitLen(n) ==
    IF n = 0 THEN 0
    ELSE IF n >= 65536 THEN 16 + BitLen(n \div 65536)
    ELSE IF n >= 256 THEN 8 + BitLen(n \div 256)
    ELSE IF n >= 16 THEN 4 + BitLen(n \div 16)
    ELSE IF n >= 4 THEN 2 + BitLen(n \div 4)
    ELSE IF n >= 2 THEN 2 ELSE 1

Abs(i) == IF i < 0 THEN -i ELSE i

\* s * m * 2^e, for a rounded mantissa m that may have reached 2^MantBits
Carry(s, m, e) ==
    IF m = 2^MantBits THEN <<s * 2^(MantBits - 1), e + 1>> ELSE <<s * m, e>>

\* s * a * 2^e for a > 0 of b bits, rounded to MantBits bits, ties away from
\* zero
Round(s, a, b, e) ==
    IF b <= MantBits
    THEN <<s * a * 2^(MantBits - b), e - (MantBits - b)>>
    ELSE Carry(s, (a + 2^(b - MantBits - 1)) \div 2^(b - MantBits), e + b - MantBits)

\* The float nearest to N * 2^e, normalized so that equal values have equal
\* representations.
Norm(N, e) ==
    IF N = 0 THEN <<0, 0>>
    ELSE Round(IF N > 0 THEN 1 ELSE -1, Abs(N), BitLen(Abs(N)), e)

\* An f64 literal with an integral value, such as 10. or 0.0
FInt(i) == Norm(i, 0)

FZero == <<0, 0>>

FOne == <<2^(MantBits - 1), 1 - MantBits>>

FNeg(a) == <<-a[1], a[2]>>

FAbs(a) == <<Abs(a[1]), a[2]>>

\* hi + lo for nonzero hi, lo with the exponent of hi not below that of lo
Align(hi, lo) ==
    IF hi[2] - lo[2] > MantBits + 1 THEN hi
    ELSE Norm(hi[1] * 2^(hi[2] - lo[2]) + lo[1], lo[2])

FAdd(a, b) ==
    IF a[1] = 0 THEN b
    ELSE IF b[1] = 0 THEN a
    ELSE IF a[2] >= b[2] THEN Align(a, b) ELSE Align(b, a)

FSub(a, b) == FAdd(a, FNeg(b))

FMul(a, b) == Norm(a[1] * b[1], a[2] + b[2])

\* a / b for b > 0 (the divisors of the solver are prices and sums of
\* liquidity over price, all positive while the reserves are).
FDiv(a, b) ==
    IF a[1] = 0 THEN <<0, 0>>
    ELSE Norm((IF a[1] > 0 THEN 1 ELSE -1)
                  * ((Abs(a[1]) * 2^(MantBits + 1)) \div b[1]),
              a[2] - b[2] - (MantBits + 1))

FLt(a, b) == FSub(a, b)[1] < 0

FLe(a, b) == FSub(a, b)[1] <= 0

RECURSIVE ISqrtFrom(_, _)
\* The largest r' >= r with r' * r' <= n, given r * r <= n
ISqrtFrom(n, r) == IF (r + 1) * (r + 1) > n THEN r ELSE ISqrtFrom(n, r + 1)

RECURSIVE ISqrt(_)
\* floor(sqrt(n))
ISqrt(n) == IF n < 4 THEN ISqrtFrom(n, 0) ELSE ISqrtFrom(n, 2 * ISqrt(n \div 4))

\* sqrt(m * 2^e) for m > 0 and even e, the mantissa scaled by 4^k first
SqrtScaled(m, e, k) == Norm(ISqrt(m * 4^k), (e \div 2) - k)

\* f64::sqrt for a >= 0
FSqrt(a) ==
    IF a[1] = 0 THEN a
    ELSE IF a[2] % 2 /= 0
    THEN SqrtScaled(2 * a[1], a[2] - 1, (30 - BitLen(2 * a[1])) \div 2)
    ELSE SqrtScaled(a[1], a[2], (30 - BitLen(a[1])) \div 2)

-----------------------------------------------------------------------------
(* UniV2Pool *)

UniV2Pool(token0, token1, reserve0, reserve1) ==
    [token0 |-> token0, token1 |-> token1,
     reserve0 |-> FInt(reserve0), reserve1 |-> FInt(reserve1)]

\* `(input_amount * reserve_out) / (reserve_in + input_amount)`
SwapOutput(reserve_in, reserve_out, input_amount) ==
    FDiv(FMul(input_amount, reserve_out), FAdd(reserve_in, input_amount))

\* UniV2Pool::get_output_amount (the input token is one of the pool's two)
get_output_amount(pool, input_token, input_amount) ==
    IF input_token = pool.token0
    THEN SwapOutput(pool.reserve0, pool.reserve1, input_amount)
    ELSE SwapOutput(pool.reserve1, pool.reserve0, input_amount)

-----------------------------------------------------------------------------
(* PairwiseLiquidities *)

with_size(num_tokens) ==
    [a \in 0 .. num_tokens - 1 |-> [b \in 0 .. num_tokens - 1 |-> FZero]]

\* index without the ordering of the pair
index_unordered(a, b) == <<a, b>>

index(a, b) == IF a < b THEN <<a, b>> ELSE <<b, a>>

get(inner, token_a, token_b) ==
    inner[index(token_a, token_b)[1]][index(token_a, token_b)[2]]

\* `*get_mut(token_a, token_b) += liquidity`
get_mut_add(inner, token_a, token_b, liquidity) ==
    [inner EXCEPT ![index(token_a, token_b)[1]][index(token_a, token_b)[2]] =
                      FAdd(@, liquidity)]

-----------------------------------------------------------------------------
(* Router *)

\* 1e-12 at f64's precision; here the same few units in the last place of 1.0
TOLERANCE == Norm(1, 3 - MantBits)

\* Cap on the sweeps of one solve (20_000 at f64's precision)
MAX_ITERS == 12

REFERENCE_TOKEN == 0

RECURSIVE FlatTokens(_)
\* pools.iter().flat_map(|p| [p.token0, p.token1])
FlatTokens(ps) ==
    IF ps = <<>> THEN <<>>
    ELSE <<Head(ps).token0, Head(ps).token1>> \o FlatTokens(Tail(ps))

RECURSIVE Unique(_, _)
\* .unique(): the first occurrence of every element, in order
Unique(seq, seen) ==
    IF seq = <<>> THEN <<>>
    ELSE IF Head(seq) \in seen THEN Unique(Tail(seq), seen)
    ELSE <<Head(seq)>> \o Unique(Tail(seq), seen \cup {Head(seq)})

\* .enumerate().map(|(i, token)| (token, i)).collect::<HashMap<_, _>>()
Enumerate(order) ==
    [t \in {order[i] : i \in DOMAIN order} |->
        (CHOOSE i \in DOMAIN order : order[i] = t) - 1]

\* token_index as Router::new computes it
TokenIndexOf(ps) == Enumerate(Unique(FlatTokens(ps), {}))

\* The pool's invariant itself, the square root forgotten
PoolLiquidity_product(pool) == FMul(pool.reserve0, pool.reserve1)

\* `(pool.reserve0 * pool.reserve1).sqrt()`
PoolLiquidity(pool) == FSqrt(FMul(pool.reserve0, pool.reserve1))

\* The body of the `for pool in &pools` loop of Router::new
AddPool(acc, pool, index_0, index_1) ==
    [reserve   |-> [[acc.reserve EXCEPT ![index_0] = FAdd(@, pool.reserve0)]
                       EXCEPT ![index_1] = FAdd(@, pool.reserve1)],
     liquidity |-> get_mut_add(acc.liquidity, index_0, index_1, PoolLiquidity(pool))]

RECURSIVE Aggregate(_, _, _)
\* the `for pool in &pools` loop of Router::new, over the first k pools
Aggregate(ps, idx, k) ==
    IF k = 0
    THEN [reserve   |-> [t \in 0 .. Cardinality(DOMAIN idx) - 1 |-> FZero],
          liquidity |-> with_size(Cardinality(DOMAIN idx))]
    ELSE AddPool(Aggregate(ps, idx, k - 1), ps[k],
                 idx[ps[k].token0], idx[ps[k].token1])

\* `Router { n_tokens, token_index, reserve_by_token, liquidity_by_pair,
\* q_by_token: vec![1.0; n_tokens] }`
RouterOf(idx, agg) ==
    [n_tokens          |-> Cardinality(DOMAIN idx),
     token_index       |-> idx,
     reserve_by_token  |-> agg.reserve,
     liquidity_by_pair |-> agg.liquidity,
     q_by_token        |-> [t \in 0 .. Cardinality(DOMAIN idx) - 1 |-> FOne]]

\* Router::new, the token index computed
RouterWith(ps, idx) == RouterOf(idx, Aggregate(ps, idx, Len(ps)))

\* Router::new
RouterNew(ps) == RouterWith(ps, TokenIndexOf(ps))

RECURSIVE Denom(_, _, _, _)
\* denom after the `for paired_token in 0..self.n_tokens` loop has run over
\* the paired tokens below k
Denom(inner, q, token, k) ==
    IF k = 0 THEN FZero
    ELSE FAdd(Denom(inner, q, token, k - 1),
              FDiv(get(inner, token, k - 1), q[k - 1]))

\* The end of the loop body for one token: max_relative_change raised to
\* relative_change if that is larger, and the price stored
StorePrice(before, token, updated_q, relative_change) ==
    [q |-> [before.q EXCEPT ![token] = updated_q],
     max_relative_change |->
         IF FLt(before.max_relative_change, relative_change)
         THEN relative_change
         ELSE before.max_relative_change]

\* `relative_change = ((updated_q - q).abs()) / q`
UpdatePrice(before, token, updated_q) ==
    StorePrice(before, token, updated_q,
               FDiv(FAbs(FSub(updated_q, before.q[token])), before.q[token]))

\* The loop body for one token that is not the output token, on the prices
\* and max_relative_change `before` it
UpdateToken(reserve, inner, n, token, before) ==
    UpdatePrice(before, token,
                FDiv(reserve[token], Denom(inner, before.q, token, n)))

RECURSIVE Sweep(_, _, _, _, _, _)
\* One pass of `for token in 0..self.n_tokens` over the tokens below k:
\* the prices and max_relative_change it leaves.
Sweep(reserve, q, inner, n, output_token, k) ==
    IF k = 0 THEN [q |-> q, max_relative_change |-> FZero]
    ELSE IF k - 1 = output_token
    THEN Sweep(reserve, q, inner, n, output_token, k - 1)
    ELSE UpdateToken(reserve, inner, n, k - 1,
                     Sweep(reserve, q, inner, n, output_token, k - 1))

RECURSIVE FixedPoint_no_break(_, _, _, _, _, _, _)
RECURSIVE SweepOn(_, _, _, _, _, _, _)
\* The loop without its `break`: always MAX_ITERS sweeps
FixedPoint_no_break(reserve, q, inner, n, output_token, iter, changes) ==
    IF iter = MAX_ITERS THEN [q |-> q, changes |-> changes]
    ELSE SweepOn(reserve, inner, n, output_token, iter, changes,
                 Sweep(reserve, q, inner, n, output_token, n))

SweepOn(reserve, inner, n, output_token, iter, changes, s) ==
    FixedPoint_no_break(reserve, s.q, inner, n, output_token, iter + 1,
                        Append(changes, s.max_relative_change))

RECURSIVE FixedPoint(_, _, _, _, _, _, _)
RECURSIVE AfterSweep(_, _, _, _, _, _, _)
\* `for _ in 0..MAX_ITERS { ... }` from iteration iter on; changes lists the
\* max_relative_change of every sweep made so far.
FixedPoint(reserve, q, inner, n, output_token, iter, changes) ==
    IF iter = MAX_ITERS THEN [q |-> q, changes |-> changes]
    ELSE AfterSweep(reserve, inner, n, output_token, iter, changes,
                    Sweep(reserve, q, inner, n, output_token, n))

\* `if max_relative_change < TOLERANCE { break; }` after the sweep s
AfterSweep(reserve, inner, n, output_token, iter, changes, s) ==
    IF FLt(s.max_relative_change, TOLERANCE)
    THEN [q |-> s.q, changes |-> Append(changes, s.max_relative_change)]
    ELSE FixedPoint(reserve, s.q, inner, n, output_token, iter + 1,
                    Append(changes, s.max_relative_change))

\* normalize_prices left out
normalize_prices_skipped(q, ref) == q

\* normalize_prices dividing the reference token's price only
normalize_prices_ref_only(q, ref) == [q EXCEPT ![ref] = FDiv(@, q[ref])]

\* Router::normalize_prices, the reference token being ref
normalize_prices(q, ref) == [t \in DOMAIN q |-> FDiv(q[t], q[ref])]

RECURSIVE OutputReserve_inverted(_, _, _, _)
\* The balance sum with the price ratio upside down
OutputReserve_inverted(inner, q, output_token, k) ==
    IF k = 0 THEN FZero
    ELSE FAdd(OutputReserve_inverted(inner, q, output_token, k - 1),
              FMul(get(inner, output_token, k - 1),
                   FDiv(q[k - 1], q[output_token])))

RECURSIVE OutputReserve(_, _, _, _)
\* output_reserve after the `for token in 0..self.n_tokens` loop has run over
\* the tokens below k
OutputReserve(inner, q, output_token, k) ==
    IF k = 0 THEN FZero
    ELSE FAdd(OutputReserve(inner, q, output_token, k - 1),
              FMul(get(inner, output_token, k - 1),
                   FDiv(q[output_token], q[k - 1])))

\* The output reserve stored under the reference token's index
WriteBack_at_reference(reserve, output_token, normalized, changes, output_reserve) ==
    [reserve_by_token |-> [reserve EXCEPT ![REFERENCE_TOKEN] = output_reserve],
     q_by_token       |-> normalized,
     extracted_amount |-> FSub(reserve[output_token], output_reserve),
     changes          |-> changes]

\* The amount returned without the output reserve being overwritten
WriteBack_skipped(reserve, output_token, normalized, changes, output_reserve) ==
    [reserve_by_token |-> reserve,
     q_by_token       |-> normalized,
     extracted_amount |-> FSub(reserve[output_token], output_reserve),
     changes          |-> changes]

\* `extracted_amount = reserve[output_token] - output_reserve;
\*  reserve[output_token] = output_reserve; extracted_amount`
WriteBack(reserve, output_token, normalized, changes, output_reserve) ==
    [reserve_by_token |-> [reserve EXCEPT ![output_token] = output_reserve],
     q_by_token       |-> normalized,
     extracted_amount |-> FSub(reserve[output_token], output_reserve),
     changes          |-> changes]

\* The output reserve computed at the normalized prices, and written back
Extract(reserve, inner, n, output_token, normalized, changes) ==
    WriteBack(reserve, output_token, normalized, changes,
              OutputReserve(inner, normalized, output_token, n))

\* What follows the loop, which left the prices and changes fp
AfterLoop(reserve, inner, n, output_token, ref, fp) ==
    Extract(reserve, inner, n, output_token, normalize_prices(fp.q, ref), fp.changes)

\* Router::no_arbitrage_equilibrium, normalizing against token ref
Equilibrium(reserve, q, inner, n, output_token, ref) ==
    AfterLoop(reserve, inner, n, output_token, ref,
              FixedPoint(reserve, q, inner, n, output_token, 0, <<>>))

\* Router::no_arbitrage_equilibrium
no_arbitrage_equilibrium(reserve, q, inner, n, output_token) ==
    Equilibrium(reserve, q, inner, n, output_token, REFERENCE_TOKEN)

-----
(* The pools a router is built from, and the trades made on it *)

\* Pools of main.rs's first router, its mirror image, one of another
\* ratio, and pools that bring in a third token.
PoolUniverse ==
    { UniV2Pool("A", "B", 10, 40),
      UniV2Pool("B", "A", 40, 10),
      UniV2Pool("A", "B", 40, 10),
      UniV2Pool("B", "C", 10, 10),
      UniV2Pool("C", "A", 40, 10) }

MaxPools == 2

MaxCalls == 2

Amounts == {-5, 0, 20}

PoolLists == UNION { [1 .. k -> PoolUniverse] : k \in 1 .. MaxPools }

NoCall ==
    [input_token |-> 0, output_token |-> 0, input_amount |-> FZero,
     reserve_by_token |-> <<>>, q_by_token |-> <<>>,
     output_amount |-> FZero, changes |-> <<>>, after_converged |-> FALSE]

Converged(changes) ==
    changes /= <<>> /\ FLt(changes[Len(changes)], TOLERANCE)

\* The variables hold the router r, built from ps and not yet called
Built(ps, r) ==
    /\ pools = ps
    /\ n_tokens = r.n_tokens
    /\ token_index = r.token_index
    /\ reserve_by_token = r.reserve_by_token
    /\ q_by_token = r.q_by_token
    /\ liquidity_by_pair = r.liquidity_by_pair
    /\ calls = 0
    /\ last = NoCall

\* The router as Router::new(ps) leaves it
Constructed(ps) == Built(ps, RouterNew(ps))

None == [none |-> TRUE]

Init ==
    \E ps \in PoolLists :
        /\ Constructed(ps)
        /\ shadow = None
        /\ graph = None

\* The router after no_arbitrage_equilibrium has returned eq to solve, and
\* the record of the call
Solved(input_token, output_token, input_amount, eq) ==
    /\ reserve_by_token' = eq.reserve_by_token
    /\ q_by_token' = eq.q_by_token
    /\ calls' = calls + 1
    /\ last' = [input_token      |-> input_token,
                output_token     |-> output_token,
                input_amount     |-> input_amount,
                reserve_by_token |-> reserve_by_token,
                q_by_token       |-> q_by_token,
                output_amount    |-> eq.extracted_amount,
                changes          |-> eq.changes,
                after_converged  |-> calls > 0 /\ Converged(last.changes)]
    /\ UNCHANGED <<pools, n_tokens, token_index, liquidity_by_pair>>

\* `self.reserve_by_token[input_token] += input_amount;
\*  self.no_arbitrage_equilibrium(output_token)`
SolveIndexed(input_token, output_token, input_amount) ==
    Solved(input_token, output_token, input_amount,
           no_arbitrage_equilibrium(
               [reserve_by_token EXCEPT ![input_token] = FAdd(@, input_amount)],
               q_by_token, liquidity_by_pair, n_tokens, output_token))

\* Router::solve.  A call that drives a reserve to zero or below makes the
\* f64 prices infinite or NaN; the trades made here keep reserves positive.
solve(input_name, output_name, amount) ==
    /\ calls < MaxCalls
    /\ FAdd(reserve_by_token[token_index[input_name]], FInt(amount))[1] > 0
    /\ SolveIndexed(token_index[input_name], token_index[output_name], FInt(amount))

\* A caller's router.solve(input_name, output_name, amount)
Trade(input_name, output_name, amount) ==
    /\ solve(input_name, output_name, amount)
    /\ UNCHANGED <<shadow, graph>>

Next ==
    \E input_name \in DOMAIN token_index, output_name \in DOMAIN token_index,
       amount \in Amounts :
        Trade(input_name, output_name, amount)

Spec == Init /\ [][Next]_vars

-----
(* Properties of Router *)

TokenIds == 0 .. n_tokens - 1

\* The last call was a trade between two distinct tokens.
Traded == calls > 0 /\ last.input_token /= last.output_token

\* The last call was one the contract rules out.
InvalidCall ==
    calls > 0 /\ (last.input_token = last.output_token \/ last.input_amount[1] < 0)

\* What "within tolerance" allows: a few units in the last place, as the
\* solver's own TOLERANCE does.
NearTolerance == Norm(1, 5 - MantBits)

\* |a - b| is within tolerance of 0 on the scale of the reserve `scale`
Near(a, b, scale) == FLe(FAbs(FSub(a, b)), FMul(NearTolerance, scale))

\* The reserves of the router as it was constructed
InitialReserves == RouterNew(pools).reserve_by_token

RECURSIVE BalanceSum(_, _)
\* sum over the tokens v below k of K(f, v) * price[f] / price[v], at the
\* prices now in the router
BalanceSum(f, k) ==
    IF k = 0 THEN FZero
    ELSE FAdd(BalanceSum(f, k - 1),
              FMul(get(liquidity_by_pair, f, k - 1),
                   FDiv(q_by_token[f], q_by_token[k - 1])))

\* C1: a trade between two distinct tokens u and f leaves the total reserve
\* of every other token exactly as it was before the call.
C1_OtherReservesUntouched ==
    Traded =>
        \A t \in TokenIds \ {last.input_token, last.output_token} :
            reserve_by_token[t] = last.reserve_by_token[t]

\* A trade on a three-token graph that moved both its input and its output
\* reserve.
C1_Witness ==
    /\ Traded
    /\ n_tokens = 3
    /\ last.input_amount[1] > 0
    /\ reserve_by_token[last.input_token] /= last.reserve_by_token[last.input_token]
    /\ reserve_by_token[last.output_token] /= last.reserve_by_token[last.output_token]

\* C2: a call with identical input and output token, or with a negative
\* amount, changes no total reserve and no price.
C2_InvalidTradeRejected ==
    InvalidCall =>
        /\ reserve_by_token = last.reserve_by_token
        /\ q_by_token = last.q_by_token

ZeroTrade == Traded /\ last.input_amount = FZero

ZeroTradeIdle ==
    /\ Near(last.output_amount, FZero, last.reserve_by_token[last.output_token])
    /\ \A t \in TokenIds :
           Near(reserve_by_token[t], last.reserve_by_token[t],
                last.reserve_by_token[t])

\* C3 as stated: on any graph, a freshly built one included, a trade of
\* amount 0 whose solve converged returns an amount within tolerance of 0 and
\* leaves every total reserve unchanged within tolerance.
C3_ZeroTradeOnAnyGraph ==
    ZeroTrade /\ Converged(last.changes) => ZeroTradeIdle

\* C3, amended: on a graph left at equilibrium by a preceding solve call that
\* converged, a trade of amount 0 returns an amount within tolerance of 0 and
\* leaves every total reserve unchanged within tolerance.
C3_ZeroTradeAtEquilibrium ==
    ZeroTrade /\ last.after_converged => ZeroTradeIdle

\* A zero trade on a three-token graph that an earlier, converged call had
\* moved away from its constructed reserves.
C3_Witness ==
    /\ ZeroTrade
    /\ last.after_converged
    /\ n_tokens = 3
    /\ last.reserve_by_token /= InitialReserves

\* The pool's reserve of token t
ReserveOf(pool, t) == IF pool.token0 = t THEN pool.reserve0 ELSE pool.reserve1

\* All pools link the same two tokens at the same reserve ratio.
SameRatioPair ==
    /\ n_tokens = 2
    /\ \E a, b \in DOMAIN token_index :
          /\ a /= b
          /\ \A i, j \in DOMAIN pools :
                FMul(ReserveOf(pools[i], a), ReserveOf(pools[j], b))
                    = FMul(ReserveOf(pools[i], b), ReserveOf(pools[j], a))

NameOf(token) == CHOOSE t \in DOMAIN token_index : token_index[t] = token

\* One pool holding the summed reserves of a two-token router as constructed
AggregatedPool ==
    [token0 |-> NameOf(0), token1 |-> NameOf(1),
     reserve0 |-> InitialReserves[0], reserve1 |-> InitialReserves[1]]

\* C4: on one pool, or parallel pools of one reserve ratio, the first trade
\* of x >= 0 returns x * T_out / (T_in + x) for the summed reserves T, the
\* value of get_output_amount on the aggregated pool (within a unit in the
\* last place of the output reserve); 20 A into two pools (10, 40) returns
\* exactly 40.
C4_TwoTokenClosedForm ==
    Traded /\ calls = 1 /\ SameRatioPair /\ last.input_amount[1] >= 0 =>
        /\ Near(last.output_amount,
                get_output_amount(AggregatedPool, NameOf(last.input_token),
                                  last.input_amount),
                InitialReserves[last.output_token])
        /\ ( /\ InitialReserves[last.input_token] = FInt(20)
             /\ InitialReserves[last.output_token] = FInt(80)
             /\ last.input_amount = FInt(20)
             => last.output_amount = FInt(40) )

\* main.rs's first router: 20 A sold into two pools (10, 40).
C4_Witness ==
    /\ Traded /\ calls = 1 /\ SameRatioPair
    /\ Len(pools) = 2
    /\ InitialReserves[last.input_token] = FInt(20)
    /\ InitialReserves[last.output_token] = FInt(80)
    /\ last.input_amount = FInt(20)
    /\ last.output_amount = FInt(40)

\* C5: a trade of x from u to f adds exactly x to the reserve of u, leaves in
\* the reserve of f the balance sum over v of K(f, v) * price[f] / price[v]
\* at the prices the call left, and returns the reserve of f before the call
\* minus the reserve of f after it.
C5_OutputAccounting ==
    Traded =>
        /\ reserve_by_token[last.input_token]
               = FAdd(last.reserve_by_token[last.input_token], last.input_amount)
        /\ reserve_by_token[last.output_token] = BalanceSum(last.output_token, n_tokens)
        /\ last.output_amount
               = FSub(last.reserve_by_token[last.output_token],
                      reserve_by_token[last.output_token])

\* A trade on a three-token graph that paid out a positive amount.
C5_Witness ==
    /\ Traded
    /\ n_tokens = 3
    /\ last.input_amount[1] > 0
    /\ last.output_amount[1] > 0

\* The pool links the tokens u and v, whichever of the two is its token0
Links(pool, u, v) == {token_index[pool.token0], token_index[pool.token1]} = {u, v}

RECURSIVE ConstructedLiquidity(_, _, _)
\* sum of sqrt(reserve0 * reserve1) over those of the first k pools that link
\* u and v
ConstructedLiquidity(u, v, k) ==
    IF k = 0 THEN FZero
    ELSE FAdd(ConstructedLiquidity(u, v, k - 1),
              IF Links(pools[k], u, v)
              THEN FSqrt(FMul(pools[k].reserve0, pools[k].reserve1))
              ELSE FZero)

\* C6: at construction and after every trade, the liquidity read for (u, v)
\* is the liquidity read for (v, u), and is the sum of sqrt(reserve0 *
\* reserve1) over the pools that link u and v.
C6_LiquiditySymmetricAndFixed ==
    \A u, v \in TokenIds :
        /\ get(liquidity_by_pair, u, v) = get(liquidity_by_pair, v, u)
        /\ get(liquidity_by_pair, u, v) = ConstructedLiquidity(u, v, Len(pools))

\* Trades made on a router whose pools name one pair in both orders.
C6_Witness ==
    /\ calls = MaxCalls
    /\ Traded
    /\ \E i, j \in DOMAIN pools :
          /\ pools[i].token0 = pools[j].token1
          /\ pools[i].token1 = pools[j].token0

\* C7: the price of token 0 is exactly 1.0 after construction and after
\* every solve call, whichever tokens the call names.
C7_ReferencePriceIsOne == q_by_token[0] = FOne

\* A call with token 0 as its output that moved the other prices off 1.0.
C7_Witness ==
    /\ calls > 0
    /\ last.output_token = 0
    /\ \E t \in TokenIds : q_by_token[t] /= FOne
    /\ q_by_token /= last.q_by_token

\* C8: a solve makes at least one and at most MAX_ITERS sweeps; every sweep
\* but the last changed some price by TOLERANCE or more; it stops short of
\* MAX_ITERS only on a sweep that changed every price by less than TOLERANCE;
\* and however it stopped, the prices are renormalized and the output reserve
\* is overwritten with the balance sum.
C8_BoundedSweeps ==
    calls > 0 =>
        /\ Len(last.changes) >= 1
        /\ Len(last.changes) <= MAX_ITERS
        /\ \A i \in 1 .. Len(last.changes) - 1 : ~FLt(last.changes[i], TOLERANCE)
        /\ Len(last.changes) < MAX_ITERS => Converged(last.changes)
        /\ q_by_token[0] = FOne
        /\ reserve_by_token[last.output_token]
               = BalanceSum(last.output_token, n_tokens)

\* A valid trade that ran into the cap without converging.
C8_Witness ==
    /\ Traded
    /\ last.input_amount[1] >= 0
    /\ Len(last.changes) = MAX_ITERS
    /\ ~Converged(last.changes)

-----------------------------------------------------------------------------
(* Two routers that differ in the reference token of normalize_prices *)

GaugeInit ==
    \E ps \in PoolLists :
        /\ Constructed(ps)
        /\ \E ref \in 1 .. n_tokens - 1 :
              shadow = [ref              |-> ref,
                        reserve_by_token |-> reserve_by_token,
                        q_by_token       |-> q_by_token,
                        output_amount    |-> FZero]
        /\ graph = None

\* The second router after its no_arbitrage_equilibrium has returned eq
ShadowSolved(eq) ==
    shadow' = [ref              |-> shadow.ref,
               reserve_by_token |-> eq.reserve_by_token,
               q_by_token       |-> eq.q_by_token,
               output_amount    |-> eq.extracted_amount]

\* Router::solve on the second router
ShadowSolve(input_token, output_token, input_amount) ==
    ShadowSolved(Equilibrium(
        [shadow.reserve_by_token EXCEPT ![input_token] = FAdd(@, input_amount)],
        shadow.q_by_token, liquidity_by_pair, n_tokens, output_token, shadow.ref))

\* The same valid trade made on both routers
GaugeTrade(input_name, output_name, amount) ==
    /\ input_name /= output_name
    /\ amount >= 0
    /\ solve(input_name, output_name, amount)
    /\ ShadowSolve(token_index[input_name], token_index[output_name], FInt(amount))
    /\ UNCHANGED graph

GaugeNext ==
    \E input_name \in DOMAIN token_index, output_name \in DOMAIN token_index,
       amount \in Amounts :
        GaugeTrade(input_name, output_name, amount)

GaugeSpec == GaugeInit /\ [][GaugeNext]_vars

\* C9: two routers built from the same pools and given the same valid
\* trades, one normalizing against token 0 and one against another token,
\* return the same amount on every call and hold the same total reserves
\* after it, to within the rounding of the arithmetic; the prices of the
\* second are those of the first times a common factor, its own price of
\* token 0.
C9_GaugeInvariance ==
    calls > 0 =>
        /\ Near(shadow.output_amount, last.output_amount,
                last.reserve_by_token[last.output_token])
        /\ \A t \in TokenIds :
              /\ Near(shadow.reserve_by_token[t], reserve_by_token[t],
                      reserve_by_token[t])
              /\ Near(shadow.q_by_token[t],
                      FMul(q_by_token[t], shadow.q_by_token[0]),
                      shadow.q_by_token[t])
        /\ shadow.q_by_token[shadow.ref] = FOne

\* Two trades on a three-token graph, the last paying out, after which the
\* two routers hold different price vectors.
C9_Witness ==
    /\ calls = 2
    /\ n_tokens = 3
    /\ last.input_amount[1] > 0
    /\ last.output_amount[1] > 0
    /\ shadow.q_by_token[0] /= FOne
    /\ shadow.q_by_token /= q_by_token

-----------------------------------------------------------------------------
(* TokenGraph *)

\* `adjacents.insert(key, liquidity)`: the entry replaced, not added to
entry_insert(adjacents_token, key, liquidity) ==
    [k \in DOMAIN adjacents_token \cup {key} |->
        IF k = key THEN liquidity ELSE adjacents_token[k]]

\* `*adjacents.entry(key).or_insert(0.0) += liquidity`
entry_add(adjacents_token, key, liquidity) ==
    [k \in DOMAIN adjacents_token \cup {key} |->
        IF k = key
        THEN FAdd(IF key \in DOMAIN adjacents_token
                  THEN adjacents_token[key] ELSE FZero,
                  liquidity)
        ELSE adjacents_token[k]]

\* The body of the `for pool in pools` loop of TokenGraph::from_pools
graph_add_pool(nodes, pool, index_0, index_1, liquidity) ==
    [nodes EXCEPT ![index_0].total_reserve = FAdd(@, pool.reserve0),
                  ![index_1].total_reserve = FAdd(@, pool.reserve1),
                  ![index_0].adjacents_token = entry_add(@, index_1, liquidity),
                  ![index_1].adjacents_token = entry_add(@, index_0, liquidity)]

RECURSIVE from_pools_loop(_, _, _)
\* the `for pool in pools` loop of TokenGraph::from_pools, over the first k
\* pools
from_pools_loop(ps, idx, k) ==
    IF k = 0
    THEN [t \in 0 .. Cardinality(DOMAIN idx) - 1 |->
             [total_reserve |-> FZero, q |-> FOne, adjacents_token |-> <<>>]]
    ELSE graph_add_pool(from_pools_loop(ps, idx, k - 1), ps[k],
                        idx[ps[k].token0], idx[ps[k].token1],
                        FSqrt(FMul(ps[k].reserve0, ps[k].reserve1)))

\* TokenGraph::from_pools
from_pools(ps, idx) == from_pools_loop(ps, idx, Len(ps))

\* The sequences that list every element of S once
KeyOrders(S) ==
    {s \in [1 .. Cardinality(S) -> S] : \A i, j \in DOMAIN s : i /= j => s[i] /= s[j]}

\* The keys of the adjacents_token of every node
AdjacentKeys(nodes) == [t \in DOMAIN nodes |-> DOMAIN nodes[t].adjacents_token]

\* The orders in which the HashMaps may yield the keys of each node's
\* adjacents_token: an order of its own for every node
IterationOrders(nodes) ==
    {order \in [DOMAIN nodes ->
                   UNION {KeyOrders(AdjacentKeys(nodes)[t]) : t \in DOMAIN nodes}] :
        \A t \in DOMAIN nodes : order[t] \in KeyOrders(AdjacentKeys(nodes)[t])}

\* TokenGraph::neighbors_with_liquidity, yielding in the order `order`
neighbors_with_liquidity(nodes, token, order) ==
    [i \in DOMAIN order[token] |->
        <<order[token][i], nodes[token].adjacents_token[order[token][i]]>>]

RECURSIVE graph_denom(_, _, _, _)
\* denom after the first k neighbours of the loop at token_graph.rs:137
graph_denom(nodes, token, order, k) ==
    IF k = 0 THEN FZero
    ELSE FAdd(graph_denom(nodes, token, order, k - 1),
              FDiv(neighbors_with_liquidity(nodes, token, order)[k][2],
                   nodes[neighbors_with_liquidity(nodes, token, order)[k][1]].q))

\* The end of the loop body for one token: max_relative_change raised to
\* relative_change if that is larger, and the price stored in the node
graph_store_price(before, token, updated_q, relative_change) ==
    [nodes |-> [before.nodes EXCEPT ![token].q = updated_q],
     max_relative_change |->
         IF FLt(before.max_relative_change, relative_change)
         THEN relative_change
         ELSE before.max_relative_change]

\* `relative_change = ((updated_q - q).abs()) / q`
graph_update_price(before, token, updated_q) ==
    graph_store_price(before, token, updated_q,
                      FDiv(FAbs(FSub(updated_q, before.nodes[token].q)),
                           before.nodes[token].q))

\* The loop body for one token that is not the output token
graph_update_token(before, token, order) ==
    graph_update_price(before, token,
                       FDiv(before.nodes[token].total_reserve,
                            graph_denom(before.nodes, token, order,
                                        Len(order[token]))))

RECURSIVE graph_sweep(_, _, _, _)
\* One pass of `for token in 0..self.nodes.len()` over the tokens below k
graph_sweep(nodes, output_token, order, k) ==
    IF k = 0 THEN [nodes |-> nodes, max_relative_change |-> FZero]
    ELSE IF k - 1 = output_token
    THEN graph_sweep(nodes, output_token, order, k - 1)
    ELSE graph_update_token(graph_sweep(nodes, output_token, order, k - 1),
                            k - 1, order)

RECURSIVE graph_fixed_point(_, _, _, _)
RECURSIVE graph_after_sweep(_, _, _, _)
\* the `for _ in 0..MAX_ITERS` loop of TokenGraph::no_arbitrage_equilibrium,
\* from iteration iter on
graph_fixed_point(nodes, output_token, order, iter) ==
    IF iter = MAX_ITERS THEN nodes
    ELSE graph_after_sweep(output_token, order, iter,
                           graph_sweep(nodes, output_token, order,
                                       Cardinality(DOMAIN nodes)))

\* `if max_relative_change < TOLERANCE { break; }` after the sweep s
graph_after_sweep(output_token, order, iter, s) ==
    IF FLt(s.max_relative_change, TOLERANCE) THEN s.nodes
    ELSE graph_fixed_point(s.nodes, output_token, order, iter + 1)

\* TokenGraph::normalize_prices
graph_normalize_prices(nodes) ==
    [t \in DOMAIN nodes |-> [nodes[t] EXCEPT !.q = FDiv(@, nodes[REFERENCE_TOKEN].q)]]

RECURSIVE graph_output_reserve(_, _, _, _)
\* output_reserve after the first k neighbours of the loop at
\* token_graph.rs:161
graph_output_reserve(nodes, output_token, order, k) ==
    IF k = 0 THEN FZero
    ELSE FAdd(graph_output_reserve(nodes, output_token, order, k - 1),
              FMul(neighbors_with_liquidity(nodes, output_token, order)[k][2],
                   FDiv(nodes[output_token].q,
                        nodes[neighbors_with_liquidity(nodes, output_token, order)[k][1]].q)))

\* `extracted_amount = total_reserve - output_reserve;
\*  total_reserve = output_reserve; extracted_amount`
graph_write_back(normalized, output_token, output_reserve) ==
    [nodes |-> [normalized EXCEPT ![output_token].total_reserve = output_reserve],
     output_amount |-> FSub(normalized[output_token].total_reserve, output_reserve)]

\* The output reserve computed at the normalized prices, and written back
graph_extract(normalized, output_token, order) ==
    graph_write_back(normalized, output_token,
                     graph_output_reserve(normalized, output_token, order,
                                          Len(order[output_token])))

\* TokenGraph::no_arbitrage_equilibrium
graph_no_arbitrage_equilibrium(nodes, output_token, order) ==
    graph_extract(graph_normalize_prices(
                      graph_fixed_point(nodes, output_token, order, 0)),
                  output_token, order)

\* TokenGraph::apply_trade_and_solve
apply_trade_and_solve(nodes, input_token, output_token, input_amount, order) ==
    graph_no_arbitrage_equilibrium(
        [nodes EXCEPT ![input_token].total_reserve = FAdd(@, input_amount)],
        output_token, order)

RefineInit ==
    \E ps \in PoolLists :
        /\ Constructed(ps)
        /\ shadow = None
        /\ graph = [nodes |-> from_pools(ps, token_index), output_amount |-> FZero]

\* The same trade made on the Router and on the TokenGraph
GraphTrade(input_name, output_name, amount) ==
    /\ solve(input_name, output_name, amount)
    /\ \E order \in IterationOrders(graph.nodes) :
          graph' = apply_trade_and_solve(graph.nodes, token_index[input_name],
                                         token_index[output_name], FInt(amount),
                                         order)
    /\ UNCHANGED shadow

RefineNext ==
    \E input_name \in DOMAIN token_index, output_name \in DOMAIN token_index,
       amount \in Amounts :
        GraphTrade(input_name, output_name, amount)

RefineSpec == RefineInit /\ [][RefineNext]_vars

\* C10: a Router and a TokenGraph built from the same pools with the same
\* token indices and given the same trades hold the same total reserves and
\* the same prices after every call, and return the same amount on every
\* call, in whatever order the adjacency maps are iterated.
C10_GraphMatchesRouter ==
    /\ \A t \in TokenIds :
          /\ graph.nodes[t].total_reserve = reserve_by_token[t]
          /\ graph.nodes[t].q = q_by_token[t]
    /\ calls > 0 => graph.output_amount = last.output_amount

\* Two trades on a three-token graph whose pools name one pair in both
\* orders, the last paying out.
C10_Witness ==
    /\ calls = 2
    /\ n_tokens = 3
    /\ Traded
    /\ last.output_amount[1] > 0
    /\ graph.output_amount = last.output_amount
    /\ \E t \in TokenIds : Cardinality(DOMAIN graph.nodes[t].adjacents_token) = 2

====
